---- MODULE Spec2Model ----
(***************************************************************************)
(* Screens of the 75-day challenge tracker.                                *)
(*                                                                         *)
(* History screen (CalendarScreen): fetched daily log records, the         *)
(* memoised statistics (streak, wins, success rate), the month grid and    *)
(* the per-day status of its cells.                                        *)
(* Today screen (TodayScreen): today's log with its optimistic task and    *)
(* photo updates, day completion and challenge reset.                      *)
(* Settings screen (SettingsScreen): the challenge list with its           *)
(* optimistic toggle and delete, and the creation of a challenge.          *)
(* Gallery screen (GalleryScreen): the fetched photos.                     *)
(* Tab bar (TabLayout): Today, History and Gallery; a screen mounts when   *)
(* it is first opened and stays mounted behind the screen in front.        *)
(*                                                                         *)
(* A calendar date is an integer: the number of days since 1970-01-01.     *)
(* A date string 'yyyy-MM-dd' is the triple <<year, month, day>>.          *)
(* A request in flight settles in one step: answered by the store behind   *)
(* the API, answered with an error status, or thrown by fetch().           *)
(***************************************************************************)
EXTENDS Integers, Sequences, FiniteSets, Bags, TLC

\* ------------------------------------------------------------------ bounds
\* First date the clock can show (2024-03-01).
Day0 == 19783
\* The clock advances at most this many days.
MaxTicks == 1
\* Short server responses carry records dated Day0 - Back .. Day0 + Ahead.
Back == 2
Ahead == 1
\* Concurrent GET /history requests.
MaxInFlight == 2
\* Long server responses hold runs of LoopBound - 1 .. LoopBound + LongExtra days.
LongExtra == 1
\* The month header is moved at most this many months from the mount month.
MaxNav == 37
\* The user taps the first MaxTapTasks tasks of the checklist.
MaxTapTasks == 2
\* Requests (and open image pickers) of the Today screen at a time.
MaxTodayReqs == 2
\* Requests of the Settings screen in flight at a time.
MaxSettingsReqs == 2
\* The user presses the day cells of the first MaxPressCells days of the shown month.
MaxPressCells == 1
\* User actions (presses, picks, tab changes) in a run of the four screens together.
MaxTaps == 4

\* ------------------------------------------------------- program constants
\* for (let i = 0; i < 365; i++)
LoopBound == 365

\* --------------------------------------------------------------- calendar
\* Proleptic Gregorian calendar, as the JS Date behind date-fns computes it.
IsLeap(y) == (y % 4 = 0 /\ y % 100 # 0) \/ y % 400 = 0

DaysInMonth(y, m) ==
    IF m = 2 THEN (IF IsLeap(y) THEN 29 ELSE 28)
    ELSE IF m \in {4, 6, 9, 11} THEN 30 ELSE 31

\* Day number of the civil date y-m-d.
DaysFromCivil(y, m, d) ==
    LET yy  == IF m <= 2 THEN y - 1 ELSE y
        era == yy \div 400
        yoe == yy - era * 400
        mp  == (m + 9) % 12
        doy == (153 * mp + 2) \div 5 + d - 1
        doe == yoe * 365 + yoe \div 4 - yoe \div 100 + doy
    IN  era * 146097 + doe - 719468

\* Civil date <<y, m, d>> of a day number.
CivilFromDays(z) ==
    LET zz  == z + 719468
        era == zz \div 146097
        doe == zz - era * 146097
        yoe == (doe - doe \div 1460 + doe \div 36524 - doe \div 146096) \div 365
        doy == doe - (365 * yoe + yoe \div 4 - yoe \div 100)
        mp  == (5 * doy + 2) \div 153
        d   == doy - (153 * mp + 2) \div 5 + 1
        m   == IF mp < 10 THEN mp + 3 ELSE mp - 9
        y   == yoe + era * 400 + (IF m <= 2 THEN 1 ELSE 0)
    IN  <<y, m, d>>

\* format(date, 'yyyy-MM-dd')
format(day) == CivilFromDays(day)

\* Date.getDay(): 0 = Sunday .. 6 = Saturday.
getDay(day) == (day + 4) % 7

\* subDays(date, amount)
subDays(day, amount) == day - amount

\* isAfter(date, dateToCompare), isSameDay(dateLeft, dateRight)
isAfter(day, other) == day > other
isSameDay(day, other) == day = other

\* Mutant: the anchor date itself instead of the first of its month.
startOfMonth_Anchor(day) == day

\* startOfMonth(date), endOfMonth(date)
startOfMonth(day) ==
    LET c == CivilFromDays(day) IN DaysFromCivil(c[1], c[2], 1)
endOfMonth(day) ==
    LET c == CivilFromDays(day) IN DaysFromCivil(c[1], c[2], DaysInMonth(c[1], c[2]))

\* Mutant: the week starts on Sunday (date-fns default).
startOfWeek_Sunday(day) == day - getDay(day)

\* startOfWeek(date, { weekStartsOn: 1 }), endOfWeek(date, { weekStartsOn: 1 })
startOfWeek(day) ==
    LET wd   == getDay(day)
        diff == (IF wd < 1 THEN 7 ELSE 0) + wd - 1
    IN  day - diff
endOfWeek(day) ==
    LET wd   == getDay(day)
        diff == (IF wd < 1 THEN -7 ELSE 0) + 6 - (wd - 1)
    IN  day + diff

\* eachDayOfInterval({ start, end })
eachDayOfInterval(start, end) == [i \in 1..(end - start + 1) |-> start + i - 1]

\* generateCalendarDays()
generateCalendarDays(month) ==
    LET monthStart == startOfMonth(month)
        monthEnd   == endOfMonth(monthStart)
        startDate  == startOfWeek(monthStart)
        endDate    == endOfWeek(monthEnd)
    IN  eachDayOfInterval(startDate, endDate)

\* addMonths(date, amount): the day of the month is clamped to the target month.
addMonths(day, amount) ==
    LET c   == CivilFromDays(day)
        idx == c[1] * 12 + (c[2] - 1) + amount
        y   == idx \div 12
        m   == (idx % 12) + 1
        dim == DaysInMonth(y, m)
    IN  DaysFromCivil(y, m, IF c[3] >= dim THEN dim ELSE c[3])

\* subMonths(date, amount)
subMonths(day, amount) == addMonths(day, 0 - amount)

\* ------------------------------------------------------------------ state
VARIABLES
    now,           \* the device's current calendar date (new Date())
    history,       \* useState<any[]>([]): the fetched records, in server order
    historyMap,    \* useMemo: date string -> record
    loading,       \* useState(true)
    pending,       \* GET /history requests in flight
    stats,         \* useMemo: { streak, totalWins, successRate }
    walked,        \* dates the streak loop of the last stats evaluation checked
    currentMonth,  \* useState(new Date())
    calendarDays,  \* generateCalendarDays() of the last render
    today,         \* startOfDay(new Date()) of the last render
    grid,          \* status of each day cell of the last render
    selectedDate,  \* useState<Date | null>(null), NoDate for null
    detailsVisible,\* modalVisible of CalendarScreen, useState(false): the details modal
    alert,         \* title of the alert the last step raised, "none" without one
    taps           \* number of user actions so far

\* The state of the History screen.
histVars == <<now, history, historyMap, loading, pending, stats, walked,
              currentMonth, calendarDays, today, grid, selectedDate, detailsVisible>>

\* The Today screen (TodayScreen) and the store's record of today.
VARIABLES
    tab,            \* the screen in front
    tLoading,       \* useState(true)
    refreshing,     \* useState(false)
    log,            \* useState<any>(null): today's record, NullLog for null
    dayNumber,      \* useState(1)
    isCompleted,    \* useState(false)
    showResetModal, \* useState(false)
    tReqs,          \* bag of the requests in flight and the open image picker
    thrown,         \* exception the last step of a handler left uncaught, "none" without one
    remote          \* the record of today in the store behind the API

todayVars == <<tLoading, refreshing, log, dayNumber, isCompleted, showResetModal,
               tReqs, thrown, remote>>

\* The Settings screen (SettingsScreen) and the store's challenges.
VARIABLES
    challenges,     \* useState<any[]>([]): is_active of every listed challenge, by id
    sLoading,       \* useState(true)
    modalVisible,   \* useState(false)
    newTitle,       \* useState("")
    confirmDelete,  \* the open "Delete Challenge" dialog (or NoDialog): its id and the list of its render
    sReqs,          \* bag of the requests in flight
    sRemote         \* is_active of every challenge in the store behind the API, by id

settingsVars == <<challenges, sLoading, modalVisible, newTitle, confirmDelete, sReqs, sRemote>>

\* The Gallery screen (GalleryScreen).
VARIABLES
    photos,         \* useState<any[]>([])
    gLoading,       \* useState(true)
    gPending        \* GET /photos requests in flight

galleryVars == <<photos, gLoading, gPending>>

\* The state of the other screens.
notHistory == <<tab, todayVars, settingsVars, galleryVars>>
notToday == <<tab, histVars, settingsVars, galleryVars>>
notSettings == <<tab, histVars, todayVars, galleryVars>>
notGallery == <<tab, histVars, todayVars, settingsVars>>

vars == <<histVars, todayVars, settingsVars, galleryVars, tab, alert, taps>>

\* Dates the clock can show.
ClockDays == Day0..(Day0 + MaxTicks)

\* Dates of the records of a short response.
RecordDays == (Day0 - Back)..(Day0 + Ahead)

\* A daily log record, reduced to the fields the screen's statistics read.
Record(day, done) == [date |-> format(day), is_completed |-> done]

\* The store's records of the dates RecordDays, oldest first: per date no
\* record, an incomplete record or a completed record.
RECURSIVE Snapshot(_, _)
Snapshot(f, day) ==
    IF day > Day0 + Ahead THEN <<>>
    ELSE (IF f[day] = "none" THEN <<>> ELSE <<Record(day, f[day] = "done")>>)
         \o Snapshot(f, day + 1)

Snapshots == {Snapshot(f, Day0 - Back) : f \in [RecordDays -> {"none", "open", "done"}]}

\* Two records of the same date.
Doubled == {<<Record(d, a), Record(d, b)>> : d \in RecordDays, a \in BOOLEAN, b \in BOOLEAN}

\* n consecutive completed days ending at date end, oldest first.
LongRun(n, end) == [i \in 1..n |-> Record(end - n + i, TRUE)]

LongRuns == {LongRun(n, e) : n \in (LoopBound - 1)..(LoopBound + LongExtra),
                             e \in {Day0 - 1, Day0}}

\* n records of the n dates ending at Day0, the oldest w of them completed.
Tally(n, w) == [i \in 1..n |-> Record(Day0 - n + i, i <= w)]

\* <<number of records, number of completed records>> of the tallies.
TallySizes == {<<8, 1>>, <<10, 7>>, <<40, 23>>}

Tallies == {Tally(nw[1], nw[2]) : nw \in TallySizes}

\* Bodies of a successful GET /history.
Responses == Snapshots \cup Doubled \cup LongRuns \cup Tallies

\* ------------------------------------------------------- derived values
\* The assignments map[log.date] = log of history.forEach for the records
\* h[lo], ..., h[hi], in this order: a later record of the same date
\* overwrites an earlier one.
RECURSIVE forEachLog(_, _, _)
forEachLog(h, lo, hi) ==
    IF lo > hi THEN <<>>
    ELSE IF lo = hi THEN h[lo].date :> h[lo]
    ELSE LET mid == lo + (hi - lo) \div 2
         IN  forEachLog(h, mid + 1, hi) @@ forEachLog(h, lo, mid)

\* Mutant: an earlier record of the same date is kept.
buildHistoryMap_FirstWins(h) ==
    [k \in {h[i].date : i \in DOMAIN h} |->
        h[CHOOSE i \in DOMAIN h :
            /\ h[i].date = k
            /\ \A j \in DOMAIN h : j < i => h[j].date # k]]

\* The historyMap memo: date string -> record.
buildHistoryMap(h) == forEachLog(h, 1, Len(h))

\* Mutant: the completed record is looked at before the future test.
getDayStatus_SuccessFirst(day, map, t) ==
    LET dateKey  == format(day)
        complete == IF dateKey \in DOMAIN map THEN map[dateKey].is_completed ELSE FALSE
    IN  IF complete THEN "success"
        ELSE IF isAfter(day, t) THEN "future"
        ELSE IF isSameDay(day, t) THEN "pending"
        ELSE "failed"

\* Mutant: only a date without any record can fail.
getDayStatus_FailNeedsNoLog(day, map, t) ==
    LET dateKey  == format(day)
        complete == IF dateKey \in DOMAIN map THEN map[dateKey].is_completed ELSE FALSE
    IN  IF isAfter(day, t) THEN "future"
        ELSE IF complete THEN "success"
        ELSE IF isSameDay(day, t) \/ dateKey \in DOMAIN map THEN "pending"
        ELSE "failed"

\* Mutant: the pending case is lost.
getDayStatus_NoPending(day, map, t) ==
    LET dateKey  == format(day)
        complete == IF dateKey \in DOMAIN map THEN map[dateKey].is_completed ELSE FALSE
    IN  IF isAfter(day, t) THEN "future"
        ELSE IF complete THEN "success"
        ELSE "failed"

\* getDayStatus(day), with historyMap and today of the enclosing render.
getDayStatus(day, map, t) ==
    LET dateKey  == format(day)
        complete == IF dateKey \in DOMAIN map THEN map[dateKey].is_completed ELSE FALSE
        isFuture == isAfter(day, t)
        isToday  == isSameDay(day, t)
    IN  IF isFuture THEN "future"
        ELSE IF complete THEN "success"
        ELSE IF isToday THEN "pending"
        ELSE "failed"

\* Mutant: the dates of all records, completed or not.
completedDates_Unfiltered(h) == {h[i].date : i \in DOMAIN h}

\* new Set(history.filter(d => d.is_completed).map(d => d.date))
completedDates(h) == {h[i].date : i \in {j \in DOMAIN h : h[j].is_completed}}

\* Mutant: an incomplete today ends the walk like any other gap.
StreakBody_BreakOnToday(st, i, completed, t) ==
    IF format(subDays(t, i)) \in completed
    THEN [streak |-> st.streak + 1, checked |-> i + 1, done |-> FALSE]
    ELSE [streak |-> st.streak, checked |-> i + 1, done |-> TRUE]

\* Mutant: a gap never ends the walk.
StreakBody_NoBreak(st, i, completed, t) ==
    IF format(subDays(t, i)) \in completed
    THEN [streak |-> st.streak + 1, checked |-> i + 1, done |-> FALSE]
    ELSE [streak |-> st.streak, checked |-> i + 1, done |-> FALSE]

\* One iteration of the streak loop, for (let i = 0; i < 365; i++) { ... }:
\* st.streak is the counter, st.checked the number of dates checked so far,
\* st.done whether the loop has been left by break.
StreakBody(st, i, completed, t) ==
    LET dateToCheck == subDays(t, i)
        dateStr     == format(dateToCheck)
    IN  IF dateStr \in completed
        THEN [streak |-> st.streak + 1, checked |-> i + 1, done |-> FALSE]
        ELSE IF i = 0
             THEN [streak |-> st.streak, checked |-> i + 1, done |-> FALSE]
             ELSE [streak |-> st.streak, checked |-> i + 1, done |-> TRUE]

\* The iterations lo, lo + 1, ..., hi - 1 of the streak loop, in this order,
\* from loop state st; nothing runs after a break.
RECURSIVE StreakLoop(_, _, _, _, _)
StreakLoop(lo, hi, st, completed, t) ==
    IF st.done \/ ~(lo < hi) THEN st
    ELSE IF hi - lo = 1 THEN StreakBody(st, lo, completed, t)
    ELSE LET mid   == lo + (hi - lo) \div 2
             first == StreakLoop(lo, mid, st, completed, t)
         IN  StreakLoop(mid, hi, first, completed, t)

\* The k for which the double (w / n) * 100 of the exact value k + 1/2 lies
\* below k + 1/2 (IEEE 754 binary64, round to nearest even).
FloatTiesBelow == {14, 28, 56, 57}

\* Mutant: Math.floor instead of Math.round.
MathRound_Floor(num, den) == num \div den

\* Math.round((totalWins / daysLogged) * 100) with num = totalWins * 100 and
\* den = daysLogged. Math.round rounds a half up; the double product differs
\* from num / den by less than any distance to a half except at an exact
\* half, where it is the half itself or the double just below it.
MathRound(num, den) ==
    LET twice == (2 * num) \div den
        tie   == (2 * num) % den = 0 /\ twice % 2 = 1
        k     == (twice - 1) \div 2
    IN  IF tie /\ k \in FloatTiesBelow THEN k
        ELSE (2 * num + den) \div (2 * den)

\* Mutant: the loop runs one iteration more.
statsMemo_LoopOneMore(h, t) ==
    IF Len(h) = 0
    THEN [stats |-> [streak |-> 0, totalWins |-> 0, successRate |-> 0], walked |-> 0]
    ELSE LET totalWins == Cardinality({i \in DOMAIN h : h[i].is_completed})
             loop      == StreakLoop(0, LoopBound + 1,
                                     [streak |-> 0, checked |-> 0, done |-> FALSE],
                                     completedDates(h), t)
         IN  [stats  |-> [streak |-> loop.streak, totalWins |-> totalWins,
                          successRate |-> MathRound(totalWins * 100, Len(h))],
              walked |-> loop.checked]

\* Mutant: the walk starts at yesterday.
statsMemo_SkipToday(h, t) ==
    IF Len(h) = 0
    THEN [stats |-> [streak |-> 0, totalWins |-> 0, successRate |-> 0], walked |-> 0]
    ELSE LET totalWins == Cardinality({i \in DOMAIN h : h[i].is_completed})
             loop      == StreakLoop(1, LoopBound,
                                     [streak |-> 0, checked |-> 0, done |-> FALSE],
                                     completedDates(h), t)
         IN  [stats  |-> [streak |-> loop.streak, totalWins |-> totalWins,
                          successRate |-> MathRound(totalWins * 100, Len(h))],
              walked |-> loop.checked]

\* Mutant: the wins are counted per completed date, not per completed record.
statsMemo_WinsByDate(h, t) ==
    IF Len(h) = 0
    THEN [stats |-> [streak |-> 0, totalWins |-> 0, successRate |-> 0], walked |-> 0]
    ELSE LET totalWins == Cardinality(completedDates(h))
             loop      == StreakLoop(0, LoopBound,
                                     [streak |-> 0, checked |-> 0, done |-> FALSE],
                                     completedDates(h), t)
         IN  [stats  |-> [streak |-> loop.streak, totalWins |-> totalWins,
                          successRate |-> MathRound(totalWins * 100, Len(h))],
              walked |-> loop.checked]

\* Mutant: no early return for an empty history.
statsMemo_NoEarlyReturn(h, t) ==
    LET totalWins   == Cardinality({i \in DOMAIN h : h[i].is_completed})
        daysLogged  == Len(h)
        successRate == IF daysLogged > 0
                       THEN MathRound(totalWins * 100, daysLogged) ELSE 0
        loop        == StreakLoop(0, LoopBound,
                                  [streak |-> 0, checked |-> 0, done |-> FALSE],
                                  completedDates(h), t)
    IN  [stats  |-> [streak |-> loop.streak, totalWins |-> totalWins,
                     successRate |-> successRate],
         walked |-> loop.checked]

\* The stats memo, evaluated at date t: the statistics and the number of
\* dates its streak loop checked.
statsMemo(h, t) ==
    IF Len(h) = 0
    THEN [stats |-> [streak |-> 0, totalWins |-> 0, successRate |-> 0], walked |-> 0]
    ELSE LET totalWins   == Cardinality({i \in DOMAIN h : h[i].is_completed})
             daysLogged  == Len(h)
             successRate == IF daysLogged > 0
                            THEN MathRound(totalWins * 100, daysLogged) ELSE 0
             loop        == StreakLoop(0, LoopBound,
                                       [streak |-> 0, checked |-> 0, done |-> FALSE],
                                       completedDates(h), t)
         IN  [stats  |-> [streak |-> loop.streak, totalWins |-> totalWins,
                          successRate |-> successRate],
              walked |-> loop.checked]

\* The day cells of a render, calendarDays.map(day => getDayStatus(day)):
\* none while the loading indicator is shown.
renderGrid(map, ld, days, t) ==
    IF ld THEN <<>>
    ELSE [d \in {days[i] : i \in DOMAIN days} |-> getDayStatus(d, map, t)]

\* ---------------------------------------------------------------- actions
\* selectedDate null.
NoDate == 0

\* Months from the month of date a to the month of date b.
monthsBetween(a, b) ==
    LET ca == CivilFromDays(a)
        cb == CivilFromDays(b)
    IN  (cb[1] * 12 + cb[2]) - (ca[1] * 12 + ca[2])

\* ------------------------------------------------------- the Today screen
\* TASKS_CONFIG, by id.
TasksConfig == <<"diet", "workout_1", "workout_2", "water", "reading", "no_alcohol">>
TaskIds == {TasksConfig[i] : i \in DOMAIN TasksConfig}

\* The keys of log.tasks.
TaskKeys == TaskIds \cup {"photo_logged"}

\* The tasks the user taps.
TapTasks == {TasksConfig[i] : i \in 1..MaxTapTasks}

\* Images the picker returns.
Images == {"img1"}

\* The store's record of a day no task of which is done yet.
FreshLog ==
    [tasks |-> [k \in TaskKeys |-> FALSE], photo_base64 |-> "none",
     day_number |-> 1, is_completed |-> FALSE]

\* The store's record of a later day with every task but the first done.
AlmostDoneLog ==
    [tasks |-> [k \in TaskKeys |-> k # TasksConfig[1]], photo_base64 |-> "img0",
     day_number |-> 2, is_completed |-> FALSE]

\* The store's record of a completed day.
CompletedLog ==
    [tasks |-> [k \in TaskKeys |-> TRUE], photo_base64 |-> "img0",
     day_number |-> 2, is_completed |-> TRUE]

\* The null log: no record, unlike every record of the store (day_number >= 1).
NullLog ==
    [tasks |-> [k \in TaskKeys |-> FALSE], photo_base64 |-> "null",
     day_number |-> 0, is_completed |-> FALSE]

\* Records of today the store can hold when the Today screen is mounted.
RemoteStarts == {FreshLog, AlmostDoneLog, CompletedLog}

\* A request in flight (kind GET, PUT, PHOTO, COMPLETE, RESET) or an open
\* image picker (kind PICK), with the values its handler holds: the task and
\* its new and previous flag (for a photo the previous photo_logged), the
\* picked image and the previous one, the log of the handler's render as far
\* as the handler still reads it.
Req(kind, task, val, prev, img, photo, snap) ==
    [kind |-> kind, task |-> task, val |-> val, prev |-> prev, img |-> img,
     photo |-> photo, snap |-> snap]

PlainReq(kind) == Req(kind, "none", FALSE, FALSE, "none", "none", NullLog)
GetReq == PlainReq("GET")

\* The requests in flight are a bag: q with one more r, q with one r less.
Started(q, r) == q (+) SetToBag({r})
Settled(q, r) == q (-) SetToBag({r})

\* An image picker is open; it covers the screen.
PickerOpen == \E r \in BagToSet(tReqs) : r.kind = "PICK"

\* The store: PUT /log/task, POST /log/photo, POST /complete_day, POST /reset.
storePutTask(r, task, val) == [r EXCEPT !.tasks[task] = val]
storePostPhoto(r, img) ==
    [r EXCEPT !.photo_base64 = img, !.tasks["photo_logged"] = TRUE]
storeAllDone(r) == \A k \in TaskKeys : r.tasks[k]
storeCompleteDay(r) == [r EXCEPT !.is_completed = TRUE]
storeReset(r) == FreshLog

\* allTasksDone of the render.
allTasksDone ==
    /\ log # NullLog
    /\ \A i \in DOMAIN TasksConfig : log.tasks[TasksConfig[i]]
    /\ log.tasks["photo_logged"]

\* The Today screen before it is mounted.
UnmountedToday ==
    /\ tLoading = TRUE
    /\ refreshing = FALSE
    /\ log = NullLog
    /\ dayNumber = 1
    /\ isCompleted = FALSE
    /\ showResetModal = FALSE
    /\ tReqs = EmptyBag
    /\ thrown = "none"
    /\ remote = FreshLog

\* Mount of the Today screen: the effect starts fetchTodayLog().
MountToday ==
    /\ tLoading = TRUE
    /\ refreshing = FALSE
    /\ log = NullLog
    /\ dayNumber = 1
    /\ isCompleted = FALSE
    /\ showResetModal = FALSE
    /\ tReqs = SetToBag({GetReq})
    /\ thrown = "none"
    /\ remote \in RemoteStarts

\* fetchTodayLog(): GET /today answers with the store's record.
FetchTodayOk(r) ==
    /\ r.kind = "GET"
    /\ tReqs' = Settled(tReqs, r)
    /\ log' = remote
    /\ dayNumber' = remote.day_number
    /\ isCompleted' = remote.is_completed
    /\ tLoading' = FALSE
    /\ refreshing' = FALSE
    /\ alert' = "none"
    /\ thrown' = "none"
    /\ UNCHANGED <<showResetModal, remote, notToday>>

\* fetchTodayLog(): GET /today throws.
FetchTodayFail(r) ==
    /\ r.kind = "GET"
    /\ tReqs' = Settled(tReqs, r)
    /\ alert' = "Error"
    /\ tLoading' = FALSE
    /\ refreshing' = FALSE
    /\ thrown' = "none"
    /\ UNCHANGED <<log, dayNumber, isCompleted, showResetModal, remote, notToday>>

\* Mutant: the refresh shows the loading indicator again.
OnRefresh_SetsLoading ==
    /\ tab = "today" /\ ~tLoading /\ ~showResetModal /\ ~PickerOpen /\ ~refreshing
    /\ BagCardinality(tReqs) < MaxTodayReqs
    /\ refreshing' = TRUE
    /\ tLoading' = TRUE
    /\ tReqs' = Started(tReqs, GetReq)
    /\ alert' = "none"
    /\ thrown' = "none"
    /\ UNCHANGED <<log, dayNumber, isCompleted, showResetModal, remote, notToday>>

\* onRefresh(): pull to refresh; the control does not fire while refreshing.
OnRefresh ==
    /\ tab = "today" /\ ~tLoading /\ ~showResetModal /\ ~PickerOpen /\ ~refreshing
    /\ BagCardinality(tReqs) < MaxTodayReqs
    /\ refreshing' = TRUE
    /\ tReqs' = Started(tReqs, GetReq)
    /\ alert' = "none"
    /\ thrown' = "none"
    /\ UNCHANGED <<tLoading, log, dayNumber, isCompleted, showResetModal, remote, notToday>>

\* toggleTask(taskId) without the return on isCompleted.
ToggleTask_IgnoresCompleted(taskId) ==
    /\ tab = "today" /\ ~tLoading /\ ~showResetModal /\ ~PickerOpen
    /\ BagCardinality(tReqs) < MaxTodayReqs
    /\ alert' = "none"
    /\ IF log = NullLog
       THEN UNCHANGED <<log, tReqs>>
       ELSE LET currentVal == log.tasks[taskId]
                newVal     == ~currentVal
            IN  /\ log' = [log EXCEPT !.tasks[taskId] = newVal]
                /\ tReqs' = Started(tReqs, Req("PUT", taskId, newVal, currentVal, "none", "none", log))
    /\ thrown' = "none"
    /\ UNCHANGED <<tLoading, refreshing, dayNumber, isCompleted, showResetModal, remote,
                   notToday>>

\* toggleTask(taskId) up to its await: the optimistic update and the PUT.
ToggleTask(taskId) ==
    /\ tab = "today" /\ ~tLoading /\ ~showResetModal /\ ~PickerOpen
    /\ BagCardinality(tReqs) < MaxTodayReqs
    /\ alert' = "none"
    /\ IF log = NullLog \/ isCompleted
       THEN UNCHANGED <<log, tReqs>>
       ELSE LET currentVal == log.tasks[taskId]
                newVal     == ~currentVal
            IN  /\ log' = [log EXCEPT !.tasks[taskId] = newVal]
                /\ tReqs' = Started(tReqs, Req("PUT", taskId, newVal, currentVal, "none", "none", log))
    /\ thrown' = "none"
    /\ UNCHANGED <<tLoading, refreshing, dayNumber, isCompleted, showResetModal, remote,
                   notToday>>

\* PUT /log/task answers; the store has set the flag. toggleTask ends.
TaskWriteOk(r) ==
    /\ r.kind = "PUT"
    /\ tReqs' = Settled(tReqs, r)
    /\ remote' = storePutTask(remote, r.task, r.val)
    /\ alert' = "none"
    /\ thrown' = "none"
    /\ UNCHANGED <<tLoading, refreshing, log, dayNumber, isCompleted, showResetModal,
                   notToday>>

\* PUT /log/task answers with an error status; the store has not changed.
\* fetch() resolves, response.ok is not read, toggleTask ends.
TaskWriteRejected(r) ==
    /\ r.kind = "PUT"
    /\ tReqs' = Settled(tReqs, r)
    /\ alert' = "none"
    /\ thrown' = "none"
    /\ UNCHANGED <<tLoading, refreshing, log, dayNumber, isCompleted, showResetModal,
                   remote, notToday>>

\* PUT /log/task throws: the catch block sets the log of the handler's
\* render with the task's previous flag.
TaskWriteThrows(r) ==
    /\ r.kind = "PUT"
    /\ tReqs' = Settled(tReqs, r)
    /\ log' = [r.snap EXCEPT !.tasks[r.task] = r.prev]
    /\ alert' = "Error"
    /\ thrown' = "none"
    /\ UNCHANGED <<tLoading, refreshing, dayNumber, isCompleted, showResetModal, remote,
                   notToday>>

\* pickImage() up to its first await: the image picker opens.
PickImage ==
    /\ tab = "today" /\ ~tLoading /\ ~showResetModal /\ ~PickerOpen
    /\ BagCardinality(tReqs) < MaxTodayReqs
    /\ alert' = "none"
    /\ IF isCompleted
       THEN UNCHANGED tReqs
       ELSE tReqs' = Started(tReqs, Req("PICK", "none", FALSE, FALSE, "none", "none", log))
    /\ thrown' = "none"
    /\ UNCHANGED <<tLoading, refreshing, log, dayNumber, isCompleted, showResetModal,
                   remote, notToday>>

\* The picker is dismissed without an image: pickImage ends.
PickerCanceled(r) ==
    /\ r.kind = "PICK"
    /\ tReqs' = Settled(tReqs, r)
    /\ alert' = "none"
    /\ thrown' = "none"
    /\ UNCHANGED <<tLoading, refreshing, log, dayNumber, isCompleted, showResetModal,
                   remote, notToday>>

\* The picker returns an image: the optimistic update on the log of the
\* handler's render, and the POST. With a null log the update's argument
\* reads log.tasks and pickImage ends in a TypeError before setLog.
PickerDone(r, base64Img) ==
    /\ r.kind = "PICK"
    /\ alert' = "none"
    /\ IF r.snap = NullLog
       THEN /\ tReqs' = Settled(tReqs, r)
            /\ UNCHANGED log
       ELSE /\ log' = [r.snap EXCEPT !.photo_base64 = base64Img,
                                            !.tasks["photo_logged"] = TRUE]
            /\ tReqs' = Started(Settled(tReqs, r),
                            Req("PHOTO", "none", TRUE, r.snap.tasks["photo_logged"], base64Img,
                                r.snap.photo_base64, NullLog))
    /\ thrown' = IF r.snap = NullLog THEN "TypeError" ELSE "none"
    /\ UNCHANGED <<tLoading, refreshing, dayNumber, isCompleted, showResetModal, remote,
                   notToday>>

\* POST /log/photo answers; the store holds the photo. pickImage ends.
PhotoWriteOk(r) ==
    /\ r.kind = "PHOTO"
    /\ tReqs' = Settled(tReqs, r)
    /\ remote' = storePostPhoto(remote, r.img)
    /\ alert' = "none"
    /\ thrown' = "none"
    /\ UNCHANGED <<tLoading, refreshing, log, dayNumber, isCompleted, showResetModal,
                   notToday>>

\* POST /log/photo answers with an error status; the store has not changed.
PhotoWriteRejected(r) ==
    /\ r.kind = "PHOTO"
    /\ tReqs' = Settled(tReqs, r)
    /\ alert' = "none"
    /\ thrown' = "none"
    /\ UNCHANGED <<tLoading, refreshing, log, dayNumber, isCompleted, showResetModal,
                   remote, notToday>>

\* POST /log/photo throws: the catch block alerts and sets no state.
PhotoWriteThrows(r) ==
    /\ r.kind = "PHOTO"
    /\ tReqs' = Settled(tReqs, r)
    /\ alert' = "Error"
    /\ thrown' = "none"
    /\ UNCHANGED <<tLoading, refreshing, log, dayNumber, isCompleted, showResetModal,
                   remote, notToday>>

\* completeDay() up to its await; the button is disabled unless every
\* task is done and the day is not completed.
CompleteDay ==
    /\ tab = "today" /\ ~tLoading /\ ~showResetModal /\ ~PickerOpen
    /\ allTasksDone /\ ~isCompleted
    /\ BagCardinality(tReqs) < MaxTodayReqs
    /\ tReqs' = Started(tReqs, PlainReq("COMPLETE"))
    /\ alert' = "none"
    /\ thrown' = "none"
    /\ UNCHANGED <<tLoading, refreshing, log, dayNumber, isCompleted, showResetModal,
                   remote, notToday>>

\* completeDay() after its await without the test of response.ok.
CompleteAnswered_IgnoresOk(r) ==
    /\ r.kind = "COMPLETE"
    /\ tReqs' = Settled(tReqs, r)
    /\ IF storeAllDone(remote)
       THEN remote' = storeCompleteDay(remote)
       ELSE UNCHANGED remote
    /\ isCompleted' = TRUE
    /\ alert' = "CONGRATULATIONS!"
    /\ thrown' = "none"
    /\ UNCHANGED <<tLoading, refreshing, log, dayNumber, showResetModal, notToday>>

\* POST /complete_day answers: response.ok when the store has every task done.
CompleteAnswered(r) ==
    /\ r.kind = "COMPLETE"
    /\ tReqs' = Settled(tReqs, r)
    /\ IF storeAllDone(remote)
       THEN /\ remote' = storeCompleteDay(remote)
            /\ isCompleted' = TRUE
            /\ alert' = "CONGRATULATIONS!"
       ELSE /\ alert' = "Incomplete"
            /\ UNCHANGED <<remote, isCompleted>>
    /\ thrown' = "none"
    /\ UNCHANGED <<tLoading, refreshing, log, dayNumber, showResetModal, notToday>>

\* POST /complete_day throws.
CompleteThrows(r) ==
    /\ r.kind = "COMPLETE"
    /\ tReqs' = Settled(tReqs, r)
    /\ alert' = "Error"
    /\ thrown' = "none"
    /\ UNCHANGED <<tLoading, refreshing, log, dayNumber, isCompleted, showResetModal,
                   remote, notToday>>

\* handleResetPress().
HandleResetPress ==
    /\ tab = "today" /\ ~tLoading /\ ~showResetModal /\ ~PickerOpen
    /\ showResetModal' = TRUE
    /\ alert' = "none"
    /\ thrown' = "none"
    /\ UNCHANGED <<tLoading, refreshing, log, dayNumber, isCompleted, tReqs, remote,
                   notToday>>

\* Cancel of the reset modal.
CancelReset ==
    /\ showResetModal
    /\ showResetModal' = FALSE
    /\ alert' = "none"
    /\ thrown' = "none"
    /\ UNCHANGED <<tLoading, refreshing, log, dayNumber, isCompleted, tReqs, remote,
                   notToday>>

\* confirmReset() up to its await.
ConfirmReset ==
    /\ showResetModal
    /\ BagCardinality(tReqs) < MaxTodayReqs
    /\ tReqs' = Started(tReqs, PlainReq("RESET"))
    /\ alert' = "none"
    /\ thrown' = "none"
    /\ UNCHANGED <<tLoading, refreshing, log, dayNumber, isCompleted, showResetModal,
                   remote, notToday>>

\* POST /reset answers, the store reset (applied) or with an error status:
\* response.ok is not read; fetchTodayLog() starts, the modal closes.
ResetAnswered(r, applied) ==
    /\ r.kind = "RESET"
    /\ tReqs' = Started(Settled(tReqs, r), GetReq)
    /\ remote' = IF applied THEN storeReset(remote) ELSE remote
    /\ showResetModal' = FALSE
    /\ alert' = "Reset Complete"
    /\ thrown' = "none"
    /\ UNCHANGED <<tLoading, refreshing, log, dayNumber, isCompleted, notToday>>

\* POST /reset throws.
ResetThrows(r) ==
    /\ r.kind = "RESET"
    /\ tReqs' = Settled(tReqs, r)
    /\ alert' = "Error"
    /\ thrown' = "none"
    /\ UNCHANGED <<tLoading, refreshing, log, dayNumber, isCompleted, showResetModal,
                   remote, notToday>>

\* ---------------------------------------------------- the Settings screen
\* Challenges of the store when the Settings screen is mounted, by id.
SettingsStarts == {("c1" :> TRUE), ("c1" :> FALSE)}

\* The id the store gives to a created challenge.
NewId == "c3"

\* Titles typed into the Add modal.
Titles == {"", "Run"}

\* A request of the Settings screen in flight (kind GET, PUT, DELETE, POST)
\* with the values its handler holds: the id and the new is_active of a PUT;
\* for the fetchChallenges() of a catch block the id and the is_active that
\* the handler was called with.
SReq(kind, id, val) == [kind |-> kind, id |-> id, val |-> val]
SGetReq == SReq("GET", "none", FALSE)

\* The empty list of challenges.
NoChallenges == [k \in {} |-> TRUE]

\* No confirmation dialog is open.
NoDialog == [id |-> "none", snap |-> NoChallenges]

\* f without the entry of id.
Without(f, id) == [k \in DOMAIN f \ {id} |-> f[k]]

\* The store: PUT, DELETE /challenges/{id}, POST /challenges.
storePutChallenge(r, id, val) == [r EXCEPT ![id] = val]
storeDeleteChallenge(r, id) == Without(r, id)
storePostChallenge(r) == r @@ (NewId :> TRUE)

\* The state of SettingsScreen at its mount (useState initial values), with
\* the requests reqs in flight.
SettingsScreen(reqs) ==
    /\ challenges = NoChallenges
    /\ sLoading = TRUE
    /\ modalVisible = FALSE
    /\ newTitle = ""
    /\ confirmDelete = NoDialog
    /\ sReqs = reqs

\* The Settings screen before it is mounted, in front of a store.
UnmountedSettings ==
    /\ SettingsScreen(EmptyBag)
    /\ sRemote = ("c1" :> TRUE)

\* The list is shown and neither the Add modal nor a dialog covers it.
ListShown == ~sLoading /\ ~modalVisible /\ confirmDelete = NoDialog

\* fetchChallenges(): GET /challenges answers with the store's challenges.
FetchChallengesOk(r) ==
    /\ r.kind = "GET"
    /\ sReqs' = Settled(sReqs, r)
    /\ challenges' = sRemote
    /\ sLoading' = FALSE
    /\ alert' = "none"
    /\ UNCHANGED <<modalVisible, newTitle, confirmDelete, sRemote, notSettings>>

\* fetchChallenges(): GET /challenges throws.
FetchChallengesFail(r) ==
    /\ r.kind = "GET"
    /\ sReqs' = Settled(sReqs, r)
    /\ alert' = "Error"
    /\ sLoading' = FALSE
    /\ UNCHANGED <<challenges, modalVisible, newTitle, confirmDelete, sRemote, notSettings>>

\* toggleChallenge(id, currentValue) up to its await: the optimistic update
\* and the PUT.
ToggleChallenge(id) ==
    /\ tab = "settings" /\ ListShown
    /\ id \in DOMAIN challenges
    /\ BagCardinality(sReqs) < MaxSettingsReqs
    /\ LET currentValue == challenges[id]
       IN  /\ challenges' = [challenges EXCEPT ![id] = ~currentValue]
           /\ sReqs' = Started(sReqs, SReq("PUT", id, ~currentValue))
    /\ alert' = "none"
    /\ UNCHANGED <<sLoading, modalVisible, newTitle, confirmDelete, sRemote, notSettings>>

\* PUT /challenges/{id} answers; the store has set is_active.
ChallengeWriteOk(r) ==
    /\ r.kind = "PUT"
    /\ r.id \in DOMAIN sRemote
    /\ sReqs' = Settled(sReqs, r)
    /\ sRemote' = storePutChallenge(sRemote, r.id, r.val)
    /\ alert' = "none"
    /\ UNCHANGED <<challenges, sLoading, modalVisible, newTitle, confirmDelete, notSettings>>

\* PUT /challenges/{id} answers with an error status; the store has not
\* changed. fetch() resolves, response.ok is not read, toggleChallenge ends.
ChallengeWriteRejected(r) ==
    /\ r.kind = "PUT"
    /\ sReqs' = Settled(sReqs, r)
    /\ alert' = "none"
    /\ UNCHANGED <<challenges, sLoading, modalVisible, newTitle, confirmDelete, sRemote,
                   notSettings>>

\* PUT /challenges/{id} throws: the catch block alerts and starts fetchChallenges().
ChallengeWriteThrows(r) ==
    /\ r.kind = "PUT"
    /\ sReqs' = Started(Settled(sReqs, r), SReq("GET", r.id, ~r.val))
    /\ alert' = "Error"
    /\ UNCHANGED <<challenges, sLoading, modalVisible, newTitle, confirmDelete, sRemote,
                   notSettings>>

\* deleteChallenge(id): the confirmation dialog opens; its Delete button
\* holds the list of this render.
DeleteChallenge(id) ==
    /\ tab = "settings" /\ ListShown
    /\ id \in DOMAIN challenges
    /\ confirmDelete' = [id |-> id, snap |-> challenges]
    /\ alert' = "Delete Challenge"
    /\ UNCHANGED <<challenges, sLoading, modalVisible, newTitle, sReqs, sRemote, notSettings>>

\* Cancel of the confirmation dialog.
CancelDelete ==
    /\ confirmDelete # NoDialog
    /\ confirmDelete' = NoDialog
    /\ alert' = "none"
    /\ UNCHANGED <<challenges, sLoading, modalVisible, newTitle, sReqs, sRemote, notSettings>>

\* Delete of the confirmation dialog up to its await: the optimistic
\* update and the DELETE.
ConfirmDelete ==
    /\ confirmDelete # NoDialog
    /\ BagCardinality(sReqs) < MaxSettingsReqs
    /\ challenges' = Without(confirmDelete.snap, confirmDelete.id)
    /\ sReqs' = Started(sReqs, SReq("DELETE", confirmDelete.id,
                                    confirmDelete.snap[confirmDelete.id]))
    /\ confirmDelete' = NoDialog
    /\ alert' = "none"
    /\ UNCHANGED <<sLoading, modalVisible, newTitle, sRemote, notSettings>>

\* DELETE /challenges/{id} answers; the store has removed the challenge.
DeleteOk(r) ==
    /\ r.kind = "DELETE"
    /\ r.id \in DOMAIN sRemote
    /\ sReqs' = Settled(sReqs, r)
    /\ sRemote' = storeDeleteChallenge(sRemote, r.id)
    /\ alert' = "none"
    /\ UNCHANGED <<challenges, sLoading, modalVisible, newTitle, confirmDelete, notSettings>>

\* DELETE /challenges/{id} answers with an error status; the store has not changed.
DeleteRejected(r) ==
    /\ r.kind = "DELETE"
    /\ sReqs' = Settled(sReqs, r)
    /\ alert' = "none"
    /\ UNCHANGED <<challenges, sLoading, modalVisible, newTitle, confirmDelete, sRemote,
                   notSettings>>

\* DELETE /challenges/{id} throws: the catch block starts fetchChallenges().
DeleteThrows(r) ==
    /\ r.kind = "DELETE"
    /\ sReqs' = Started(Settled(sReqs, r), SReq("GET", r.id, r.val))
    /\ alert' = "none"
    /\ UNCHANGED <<challenges, sLoading, modalVisible, newTitle, confirmDelete, sRemote,
                   notSettings>>

\* The Add button opens the modal.
OpenModal ==
    /\ tab = "settings" /\ ListShown
    /\ modalVisible' = TRUE
    /\ alert' = "none"
    /\ UNCHANGED <<challenges, sLoading, newTitle, confirmDelete, sReqs, sRemote, notSettings>>

\* The close button of the modal.
CloseModal ==
    /\ modalVisible
    /\ modalVisible' = FALSE
    /\ alert' = "none"
    /\ UNCHANGED <<challenges, sLoading, newTitle, confirmDelete, sReqs, sRemote, notSettings>>

\* The title field of the modal.
SetNewTitle(title) ==
    /\ modalVisible
    /\ newTitle' = title
    /\ alert' = "none"
    /\ UNCHANGED <<challenges, sLoading, modalVisible, confirmDelete, sReqs, sRemote,
                   notSettings>>

\* addChallenge() up to its await.
AddChallenge ==
    /\ modalVisible
    /\ BagCardinality(sReqs) < MaxSettingsReqs
    /\ IF newTitle = ""
       THEN /\ alert' = "Required"
            /\ UNCHANGED sReqs
       ELSE /\ alert' = "none"
            /\ sReqs' = Started(sReqs, SReq("POST", "none", TRUE))
    /\ UNCHANGED <<challenges, sLoading, modalVisible, newTitle, confirmDelete, sRemote,
                   notSettings>>

\* POST /challenges answers response.ok; the store holds the new challenge:
\* the modal closes, its fields are cleared, fetchChallenges() starts.
CreateOk(r) ==
    /\ r.kind = "POST"
    /\ NewId \notin DOMAIN sRemote
    /\ sReqs' = Started(Settled(sReqs, r), SGetReq)
    /\ sRemote' = storePostChallenge(sRemote)
    /\ modalVisible' = FALSE
    /\ newTitle' = ""
    /\ alert' = "none"
    /\ UNCHANGED <<challenges, sLoading, confirmDelete, notSettings>>

\* POST /challenges answers with an error status.
CreateRejected(r) ==
    /\ r.kind = "POST"
    /\ sReqs' = Settled(sReqs, r)
    /\ alert' = "Error"
    /\ UNCHANGED <<challenges, sLoading, modalVisible, newTitle, confirmDelete, sRemote,
                   notSettings>>

\* POST /challenges throws.
CreateThrows(r) ==
    /\ r.kind = "POST"
    /\ sReqs' = Settled(sReqs, r)
    /\ alert' = "Error"
    /\ UNCHANGED <<challenges, sLoading, modalVisible, newTitle, confirmDelete, sRemote,
                   notSettings>>

\* ----------------------------------------------------- the Gallery screen
\* Bodies of GET /photos.
PhotoResponses == {<<>>, <<"img0">>}

\* The Gallery screen before it is mounted.
UnmountedGallery ==
    /\ photos = <<>>
    /\ gLoading = TRUE
    /\ gPending = 0

\* fetchPhotos(): GET /photos answers with a body.
FetchPhotosOk(data) ==
    /\ gPending > 0
    /\ gPending' = gPending - 1
    /\ photos' = data
    /\ gLoading' = FALSE
    /\ alert' = "none"
    /\ UNCHANGED notGallery

\* fetchPhotos(): GET /photos throws; the catch block only logs.
FetchPhotosFail ==
    /\ gPending > 0
    /\ gPending' = gPending - 1
    /\ gLoading' = FALSE
    /\ alert' = "none"
    /\ UNCHANGED <<photos, notGallery>>

\* ----------------------------------------------------- the History screen
\* Mount of the History screen on one of the dates starts: first render with
\* the initial state, then the effect starts the fetch.
MountHistory(starts, inFlight) ==
    /\ now \in starts
    /\ history = <<>>
    /\ historyMap = buildHistoryMap(<<>>)
    /\ loading = TRUE
    /\ pending = inFlight
    /\ stats = statsMemo(<<>>, now).stats
    /\ walked = statsMemo(<<>>, now).walked
    /\ currentMonth = now
    /\ calendarDays = generateCalendarDays(now)
    /\ today = now
    /\ grid = renderGrid(historyMap, TRUE, calendarDays, now)
    /\ selectedDate = NoDate
    /\ detailsVisible = FALSE

\* The History screen before it is mounted.
UnmountedHistory == MountHistory({Day0}, 0)

InitHistory(starts) ==
    /\ tab = "history"
    /\ MountHistory(starts, 1)
    /\ UnmountedToday
    /\ UnmountedSettings
    /\ UnmountedGallery
    /\ alert = "none"
    /\ taps = 0

Init == InitHistory(ClockDays)

\* GET /history answers with a body: setHistory(data), setLoading(false);
\* the render that follows re-evaluates both memos and the grid.
FetchHistoryOk(data) ==
    /\ pending > 0
    /\ pending' = pending - 1
    /\ history' = data
    /\ loading' = FALSE
    /\ historyMap' = buildHistoryMap(data)
    /\ LET memo == statsMemo(data, now)
       IN  /\ stats' = memo.stats
           /\ walked' = memo.walked
    /\ today' = now
    /\ calendarDays' = generateCalendarDays(currentMonth)
    /\ grid' = renderGrid(historyMap', FALSE, calendarDays', now)
    /\ alert' = "none"
    /\ UNCHANGED <<now, currentMonth, selectedDate, detailsVisible, notHistory>>

\* GET /history throws: console.error, setLoading(false); a render follows
\* when loading changes.
FetchHistoryFail ==
    /\ pending > 0
    /\ pending' = pending - 1
    /\ loading' = FALSE
    /\ IF loading
       THEN /\ today' = now
            /\ calendarDays' = generateCalendarDays(currentMonth)
            /\ grid' = renderGrid(historyMap, FALSE, calendarDays', now)
       ELSE UNCHANGED <<today, calendarDays, grid>>
    /\ alert' = "none"
    /\ UNCHANGED <<now, history, historyMap, stats, walked, currentMonth, selectedDate,
                   detailsVisible, notHistory>>

\* Mutant: the header with its refresh button is rendered while loading.
Refresh_WhileLoading ==
    /\ tab = "history" /\ ~detailsVisible
    /\ pending < MaxInFlight
    /\ pending' = pending + 1
    /\ alert' = "none"
    /\ UNCHANGED <<now, history, historyMap, loading, stats, walked, currentMonth,
                   calendarDays, today, grid, selectedDate, detailsVisible, notHistory>>

\* The refresh button of the header: fetchHistory().
Refresh ==
    /\ tab = "history" /\ ~loading /\ ~detailsVisible
    /\ pending < MaxInFlight
    /\ pending' = pending + 1
    /\ alert' = "none"
    /\ UNCHANGED <<now, history, historyMap, loading, stats, walked, currentMonth,
                   calendarDays, today, grid, selectedDate, detailsVisible, notHistory>>

\* The chevrons of the month header: setCurrentMonth(addMonths(currentMonth,
\* amount)) with amount 1, or subMonths(currentMonth, 1) as amount -1; the
\* render that follows rebuilds the grid, the stats memo is kept.
ChangeMonth(amount) ==
    /\ tab = "history" /\ ~loading /\ ~detailsVisible
    /\ LET month == IF amount < 0 THEN subMonths(currentMonth, 0 - amount)
                    ELSE addMonths(currentMonth, amount)
       IN  /\ monthsBetween(now, month) \in (0 - MaxNav)..MaxNav
           /\ currentMonth' = month
           /\ calendarDays' = generateCalendarDays(month)
           /\ grid' = renderGrid(historyMap, FALSE, calendarDays', now)
    /\ today' = now
    /\ alert' = "none"
    /\ UNCHANGED <<now, history, historyMap, loading, pending, stats, walked, selectedDate,
                   detailsVisible, notHistory>>

PrevMonth == ChangeMonth(-1)
NextMonth == ChangeMonth(1)

\* isSameMonth(day, other)
isSameMonth(day, other) ==
    LET a == CivilFromDays(day)
        b == CivilFromDays(other)
    IN  a[1] = b[1] /\ a[2] = b[2]

\* The day cells the user presses: cells of the shown month (the others are
\* disabled), of its first MaxPressCells days.
PressCells ==
    {calendarDays[i] : i \in {j \in DOMAIN calendarDays :
        /\ isSameMonth(calendarDays[j], currentMonth)
        /\ CivilFromDays(calendarDays[j])[3] <= MaxPressCells}}

\* A press on a day cell, handleDayPress(day): setSelectedDate(day),
\* setModalVisible(true); the render that follows reads the date anew and
\* rebuilds the grid, the stats memo is kept.
HandleDayPress(day) ==
    /\ tab = "history" /\ ~loading /\ ~detailsVisible
    /\ day \in PressCells
    /\ selectedDate' = day
    /\ detailsVisible' = TRUE
    /\ today' = now
    /\ calendarDays' = generateCalendarDays(currentMonth)
    /\ grid' = renderGrid(historyMap, FALSE, calendarDays', now)
    /\ alert' = "none"
    /\ UNCHANGED <<now, history, historyMap, loading, pending, stats, walked, currentMonth,
                   notHistory>>

\* The details modal is closed (overlay, close button or back):
\* setModalVisible(false) and the render that follows.
CloseDetails ==
    /\ detailsVisible
    /\ detailsVisible' = FALSE
    /\ today' = now
    /\ calendarDays' = generateCalendarDays(currentMonth)
    /\ grid' = renderGrid(historyMap, FALSE, calendarDays', now)
    /\ alert' = "none"
    /\ UNCHANGED <<now, history, historyMap, loading, pending, stats, walked, currentMonth,
                   selectedDate, notHistory>>

\* Midnight passes.
Tick ==
    /\ now < Day0 + MaxTicks
    /\ now' = now + 1
    /\ alert' = "none"
    /\ UNCHANGED <<history, historyMap, loading, pending, stats, walked,
                   currentMonth, calendarDays, today, grid, selectedDate, detailsVisible,
                   notHistory>>

\* A step of the user counted, at most MaxTaps of them; a step not counted.
Tap == taps < MaxTaps /\ taps' = taps + 1
NoTap == UNCHANGED taps

\* The History screen alone: the user's steps are not counted.
Next ==
    \/ \E data \in Responses : NoTap /\ FetchHistoryOk(data)
    \/ NoTap /\ FetchHistoryFail
    \/ NoTap /\ Refresh
    \/ \E day \in PressCells : NoTap /\ HandleDayPress(day)
    \/ NoTap /\ CloseDetails
    \/ NoTap /\ Tick

\* The History screen with the statistics of every fetched record set, the
\* user refreshing and opening the details of a day while the date advances.
Spec == Init /\ [][Next]_vars

\* Dates the History screen is mounted on in SpecNav: 2024-03-01 and 2024-03-31.
NavStarts == {Day0, Day0 + 30}

\* Bodies of GET /history in SpecNav.
NavResponses == {<<>>, <<Record(Day0, TRUE)>>}

InitNav == InitHistory(NavStarts)

NextNav ==
    \/ \E data \in NavResponses : NoTap /\ FetchHistoryOk(data)
    \/ NoTap /\ FetchHistoryFail
    \/ NoTap /\ Refresh
    \/ NoTap /\ PrevMonth
    \/ NoTap /\ NextMonth

\* The History screen with the user moving the month header and refreshing.
SpecNav == InitNav /\ [][NextNav]_vars

\* The tabs of the tab bar, TabLayout: index (Today), calendar (History), gallery.
Tabs == {"today", "history", "gallery"}

\* The screens: the tabs and the Settings screen.
Screens == Tabs \cup {"settings"}

\* A screen is mounted from its first opening on: it has left the loading
\* state or its first request is in flight.
TodayMounted == ~tLoading \/ tReqs # EmptyBag
HistoryMounted == ~loading \/ pending > 0
GalleryMounted == ~gLoading \/ gPending > 0
SettingsMounted == ~sLoading \/ sReqs # EmptyBag

\* No modal, dialog or picker covers the screen in front.
Uncovered ==
    /\ ~showResetModal /\ ~PickerOpen
    /\ ~detailsVisible
    /\ ~modalVisible /\ confirmDelete = NoDialog

\* The Today tab is pressed: the screen comes to the front as it is.
OpenToday ==
    /\ tab # "today" /\ Uncovered
    /\ tab' = "today"
    /\ IF TodayMounted
       THEN UNCHANGED tReqs
       ELSE tReqs' = SetToBag({GetReq})
    /\ alert' = "none"
    /\ UNCHANGED <<tLoading, refreshing, log, dayNumber, isCompleted, showResetModal, thrown,
                   remote, histVars, settingsVars, galleryVars>>

\* The History tab is pressed: on its first opening CalendarScreen mounts
\* and its effect starts fetchHistory(); later the screen comes to the
\* front as it is.
OpenHistory ==
    /\ tab # "history" /\ Uncovered
    /\ tab' = "history"
    /\ IF HistoryMounted
       THEN UNCHANGED <<pending, currentMonth, calendarDays, today, grid>>
       ELSE /\ pending' = 1
            /\ currentMonth' = now
            /\ calendarDays' = generateCalendarDays(now)
            /\ today' = now
            /\ grid' = renderGrid(historyMap, TRUE, calendarDays', now)
    /\ alert' = "none"
    /\ UNCHANGED <<now, history, historyMap, loading, stats, walked, selectedDate,
                   detailsVisible, todayVars, settingsVars, galleryVars>>

\* The Gallery tab is pressed: on its first opening GalleryScreen mounts and
\* its effect starts fetchPhotos().
OpenGallery ==
    /\ tab # "gallery" /\ Uncovered
    /\ tab' = "gallery"
    /\ IF GalleryMounted
       THEN UNCHANGED gPending
       ELSE gPending' = 1
    /\ alert' = "none"
    /\ UNCHANGED <<photos, gLoading, histVars, todayVars, settingsVars>>

\* The Settings screen is opened: on its first opening SettingsScreen mounts
\* and its effect starts fetchChallenges().
OpenSettings ==
    /\ tab # "settings" /\ Uncovered
    /\ tab' = "settings"
    /\ IF SettingsMounted
       THEN UNCHANGED sReqs
       ELSE sReqs' = SetToBag({SGetReq})
    /\ alert' = "none"
    /\ UNCHANGED <<challenges, sLoading, modalVisible, newTitle, confirmDelete, sRemote,
                   histVars, todayVars, galleryVars>>

\* The application starts on the Today tab, the first route; the other
\* screens are not mounted yet. The store holds today's record and the
\* challenges.
InitApp ==
    /\ tab = "today"
    /\ MountToday
    /\ UnmountedHistory
    /\ SettingsScreen(EmptyBag)
    /\ sRemote \in SettingsStarts
    /\ UnmountedGallery
    /\ alert = "none"
    /\ taps = 0

\* The user's steps: a tab or the Settings screen is opened, or a handler
\* of the screen in front runs.
PressApp ==
    \/ Tap /\ OpenToday
    \/ Tap /\ OpenHistory
    \/ Tap /\ OpenGallery
    \/ Tap /\ OpenSettings
    \/ Tap /\ OnRefresh
    \/ \E taskId \in TapTasks : Tap /\ ToggleTask(taskId)
    \/ Tap /\ PickImage
    \/ \E r \in BagToSet(tReqs) : Tap /\ PickerCanceled(r)
    \/ \E r \in BagToSet(tReqs) : \E img \in Images : Tap /\ PickerDone(r, img)
    \/ Tap /\ CompleteDay
    \/ Tap /\ HandleResetPress
    \/ Tap /\ CancelReset
    \/ Tap /\ ConfirmReset
    \/ Tap /\ Refresh
    \/ \E day \in PressCells : Tap /\ HandleDayPress(day)
    \/ Tap /\ CloseDetails
    \/ Tap /\ PrevMonth
    \/ Tap /\ NextMonth
    \/ \E id \in DOMAIN challenges : Tap /\ ToggleChallenge(id)
    \/ \E id \in DOMAIN challenges : Tap /\ DeleteChallenge(id)
    \/ Tap /\ CancelDelete
    \/ Tap /\ ConfirmDelete
    \/ Tap /\ OpenModal
    \/ Tap /\ CloseModal
    \/ \E title \in Titles : Tap /\ SetNewTitle(title)
    \/ Tap /\ AddChallenge

\* A request of a mounted screen settles.
SettleApp ==
    \/ \E r \in BagToSet(tReqs) : NoTap /\ FetchTodayOk(r)
    \/ \E r \in BagToSet(tReqs) : NoTap /\ FetchTodayFail(r)
    \/ \E r \in BagToSet(tReqs) : NoTap /\ TaskWriteOk(r)
    \/ \E r \in BagToSet(tReqs) : NoTap /\ TaskWriteRejected(r)
    \/ \E r \in BagToSet(tReqs) : NoTap /\ TaskWriteThrows(r)
    \/ \E r \in BagToSet(tReqs) : NoTap /\ PhotoWriteOk(r)
    \/ \E r \in BagToSet(tReqs) : NoTap /\ PhotoWriteRejected(r)
    \/ \E r \in BagToSet(tReqs) : NoTap /\ PhotoWriteThrows(r)
    \/ \E r \in BagToSet(tReqs) : NoTap /\ CompleteAnswered(r)
    \/ \E r \in BagToSet(tReqs) : NoTap /\ CompleteThrows(r)
    \/ \E r \in BagToSet(tReqs) : \E applied \in BOOLEAN : NoTap /\ ResetAnswered(r, applied)
    \/ \E r \in BagToSet(tReqs) : NoTap /\ ResetThrows(r)
    \/ \E data \in NavResponses : NoTap /\ FetchHistoryOk(data)
    \/ NoTap /\ FetchHistoryFail
    \/ \E r \in BagToSet(sReqs) : NoTap /\ FetchChallengesOk(r)
    \/ \E r \in BagToSet(sReqs) : NoTap /\ FetchChallengesFail(r)
    \/ \E r \in BagToSet(sReqs) : NoTap /\ ChallengeWriteOk(r)
    \/ \E r \in BagToSet(sReqs) : NoTap /\ ChallengeWriteRejected(r)
    \/ \E r \in BagToSet(sReqs) : NoTap /\ ChallengeWriteThrows(r)
    \/ \E r \in BagToSet(sReqs) : NoTap /\ DeleteOk(r)
    \/ \E r \in BagToSet(sReqs) : NoTap /\ DeleteRejected(r)
    \/ \E r \in BagToSet(sReqs) : NoTap /\ DeleteThrows(r)
    \/ \E r \in BagToSet(sReqs) : NoTap /\ CreateOk(r)
    \/ \E r \in BagToSet(sReqs) : NoTap /\ CreateRejected(r)
    \/ \E r \in BagToSet(sReqs) : NoTap /\ CreateThrows(r)
    \/ \E data \in PhotoResponses : NoTap /\ FetchPhotosOk(data)
    \/ NoTap /\ FetchPhotosFail

NextApp ==
    \/ PressApp
    \/ SettleApp

\* The four screens behind the tab bar, each with its requests and user actions.
SpecApp == InitApp /\ [][NextApp]_vars
TypeOK ==
    /\ now \in ClockDays \cup NavStarts
    /\ tab \in Screens
    /\ taps \in 0..MaxTaps
    /\ selectedDate \in Int /\ detailsVisible \in BOOLEAN
    /\ tLoading \in BOOLEAN /\ refreshing \in BOOLEAN /\ isCompleted \in BOOLEAN
    /\ showResetModal \in BOOLEAN
    /\ BagCardinality(tReqs) <= MaxTodayReqs
    /\ BagCardinality(sReqs) <= MaxSettingsReqs
    /\ sLoading \in BOOLEAN /\ modalVisible \in BOOLEAN /\ newTitle \in Titles
    /\ gLoading \in BOOLEAN /\ gPending \in 0..1
    /\ history \in Responses
    /\ loading \in BOOLEAN
    /\ pending \in 0..MaxInFlight
    /\ stats \in [streak : 0..LoopBound, totalWins : Nat, successRate : 0..100]
    /\ walked \in 0..LoopBound
    /\ today \in ClockDays \cup NavStarts

\* ---------------------------------------------------------- the records
\* Positions of the fetched records dated day.
LogsOf(day) == {i \in DOMAIN history : history[i].date = format(day)}

\* The record the screen shows for day is the last fetched one of that date.
HasLog(day) == LogsOf(day) # {}
LogDone(day) ==
    /\ HasLog(day)
    /\ history[CHOOSE i \in LogsOf(day) : \A j \in LogsOf(day) : j <= i].is_completed

\* Dates getDayStatus is asked about: the cells of the grid and the record dates.
AskedDays == DOMAIN grid \cup RecordDays

\* ------------------------------------------------------------ C1 .. C5
\* C1: every date strictly after today is classified 'future', with or
\* without a record of that date and whatever the record's is_completed is.
C1_FutureIsFuture ==
    /\ \A d \in DOMAIN grid : d > today => grid[d] = "future"
    /\ \A t \in ClockDays : \A d \in AskedDays :
           d > t => getDayStatus(d, historyMap, t) = "future"

\* A rendered cell after today whose record is completed.
C1_Witness ==
    \E d \in DOMAIN grid : d > today /\ LogDone(d) /\ grid[d] = "future"

\* C2: every date strictly before today that has no record, or whose record
\* is not completed, is classified 'failed'.
C2_PastIncompleteFailed ==
    /\ \A d \in DOMAIN grid : (d < today /\ ~LogDone(d)) => grid[d] = "failed"
    /\ \A t \in ClockDays : \A d \in AskedDays :
           (d < t /\ ~LogDone(d)) => getDayStatus(d, historyMap, t) = "failed"

\* A rendered past cell with an incomplete record and one without a record.
C2_Witness ==
    /\ \E d \in DOMAIN grid : d < today /\ HasLog(d) /\ ~LogDone(d) /\ grid[d] = "failed"
    /\ \E d \in DOMAIN grid : d < today /\ ~HasLog(d) /\ grid[d] = "failed"

\* C3: today is 'pending' without a record or with an incomplete record,
\* 'success' with a completed record, and never 'failed' or 'future'.
C3_TodayPendingOrSuccess ==
    /\ today \in DOMAIN grid =>
           /\ ~LogDone(today) => grid[today] = "pending"
           /\ LogDone(today) => grid[today] = "success"
           /\ grid[today] \notin {"failed", "future"}
    /\ \A t \in ClockDays :
           getDayStatus(t, historyMap, t) = (IF LogDone(t) THEN "success" ELSE "pending")

\* Today rendered with an incomplete record.
C3_Witness ==
    /\ today \in DOMAIN grid
    /\ HasLog(today) /\ ~LogDone(today)
    /\ grid[today] = "pending"

\* C4: a date on or before today is 'success' if its record is completed,
\* and 'success' is the status of no other date.
C4_SuccessIffCompleted ==
    /\ \A d \in DOMAIN grid : grid[d] = "success" <=> (d <= today /\ LogDone(d))
    /\ \A t \in ClockDays : \A d \in AskedDays :
           getDayStatus(d, historyMap, t) = "success" <=> (d <= t /\ LogDone(d))

\* A rendered past cell with a completed record, next to a past cell without one.
C4_Witness ==
    /\ \E d \in DOMAIN grid :
           d < today /\ Cardinality(LogsOf(d)) = 1 /\ LogDone(d) /\ grid[d] = "success"
    /\ \E d \in DOMAIN grid : d < today /\ ~LogDone(d) /\ grid[d] # "success"

\* C5: with no record the streak is 0 and the streak loop checks no date.
C5_EmptyHistoryZero ==
    /\ Len(history) = 0 =>
           /\ stats = [streak |-> 0, totalWins |-> 0, successRate |-> 0]
           /\ walked = 0
    /\ \A t \in ClockDays : Len(history) = 0 =>
           /\ statsMemo(history, t).stats.streak = 0
           /\ statsMemo(history, t).walked = 0

\* The fetch has settled and there is no record.
C5_Witness ==
    /\ ~loading /\ pending = 0
    /\ Len(history) = 0
    /\ stats.streak = 0 /\ walked = 0

\* ------------------------------------------------------------ C6 .. C10
\* The walk of the streak loop covers this many dates.
WalkCap == 365

\* Dates with a completed record among the fetched records.
DoneDates == {r.date : r \in {history[i] : i \in DOMAIN history} \cap
                              [date : {history[i].date : i \in DOMAIN history},
                               is_completed : {TRUE}]}

\* Number of consecutive dates end, end - 1, ... that are all in done.
RunLength(done, end) ==
    CHOOSE k \in 0..Len(history) :
        /\ format(end - k) \notin done
        /\ \A j \in 0..(k - 1) : format(end - j) \in done

Smaller(a, b) == IF a <= b THEN a ELSE b

\* The streak and the number of checked dates the stats memo yields at date t.
StreakAt(t) == statsMemo(history, t).stats.streak
WalkedAt(t) == statsMemo(history, t).walked

\* C6 as claimed: when today is not completed, the streak is the number k of
\* consecutive completed days ending at yesterday.
C6_Original ==
    \A t \in ClockDays :
        format(t) \notin DoneDates => StreakAt(t) = RunLength(DoneDates, t - 1)

\* C6 amended: when today is not completed, the streak is the number k of
\* consecutive completed days ending at yesterday, but at most 364 (the walk
\* ends at today - 364); yesterday and the day before completed, the day
\* before that and today not completed gives 2.
C6_StreakSkipsOpenToday ==
    \A t \in ClockDays :
        format(t) \notin DoneDates =>
            /\ StreakAt(t) = Smaller(RunLength(DoneDates, t - 1), WalkCap - 1)
            /\ ( /\ format(t - 1) \in DoneDates
                 /\ format(t - 2) \in DoneDates
                 /\ format(t - 3) \notin DoneDates ) => StreakAt(t) = 2

\* The screen shows streak 2 on a day whose record is open, after two completed days.
C6_Witness ==
    /\ today = now
    /\ HasLog(now) /\ format(now) \notin DoneDates
    /\ format(now - 1) \in DoneDates
    /\ format(now - 2) \in DoneDates
    /\ format(now - 3) \notin DoneDates
    /\ stats.streak = 2

\* C7 as claimed: today and yesterday completed and the date three days
\* before today not completed gives 2.
C7_Original ==
    \A t \in ClockDays :
        ( /\ format(t) \in DoneDates
          /\ format(t - 1) \in DoneDates
          /\ format(t - 3) \notin DoneDates ) => StreakAt(t) = 2

\* C7 amended: today and yesterday completed and the date three days before
\* today not completed gives 2 when the date two days before today is not
\* completed (the walk stops at that gap, the third date checked), and 3 when
\* it is completed (the walk stops at the gap three days back).
C7_StreakStopsAtFirstGap ==
    \A t \in ClockDays :
        ( /\ format(t) \in DoneDates
          /\ format(t - 1) \in DoneDates
          /\ format(t - 3) \notin DoneDates ) =>
            IF format(t - 2) \in DoneDates
            THEN StreakAt(t) = 3 /\ WalkedAt(t) = 4
            ELSE StreakAt(t) = 2 /\ WalkedAt(t) = 3

\* The screen shows streak 2: today and yesterday completed, the walk stopped
\* two days back.
C7_Witness ==
    /\ today = now
    /\ format(now) \in DoneDates
    /\ format(now - 1) \in DoneDates
    /\ format(now - 2) \notin DoneDates
    /\ format(now - 3) \notin DoneDates
    /\ stats.streak = 2 /\ walked = 3

\* The date the run of the streak ends at: today if completed, else yesterday.
RunEnd(t) == IF format(t) \in DoneDates THEN t ELSE t - 1

\* C8 as claimed: for a non-empty record set the streak is the length of the
\* maximal run of consecutive completed dates ending at today, or at
\* yesterday when today is not completed.
C8_Original ==
    \A t \in ClockDays :
        Len(history) > 0 => StreakAt(t) = RunLength(DoneDates, RunEnd(t))

\* C8 amended: for a non-empty record set the streak is the length of that
\* run, counted only within the 365 dates today .. today - 364 of the walk.
C8_StreakIsRunInWindow ==
    \A t \in ClockDays :
        Len(history) > 0 =>
            StreakAt(t) = Smaller(RunLength(DoneDates, RunEnd(t)),
                                  WalkCap - (t - RunEnd(t)))

\* The screen shows streak 1: a completed date behind the first gap does not count.
C8_Witness ==
    /\ today = now
    /\ format(now) \in DoneDates
    /\ format(now - 1) \notin DoneDates
    /\ format(now - 2) \in DoneDates
    /\ stats.streak = 1 /\ walked = 2

\* C9: the walk checks at most the 365 dates today .. today - 364, the streak
\* never exceeds 365, and a run of more than 365 completed days ending today
\* gives exactly 365.
C9_StreakCapped ==
    /\ stats.streak <= WalkCap /\ walked <= WalkCap
    /\ \A t \in ClockDays :
           /\ StreakAt(t) <= WalkCap
           /\ WalkedAt(t) <= WalkCap
           /\ RunLength(DoneDates, t) > WalkCap => StreakAt(t) = WalkCap

\* The screen shows streak 365 for a longer run ending today.
C9_Witness ==
    /\ today = now
    /\ RunLength(DoneDates, now) > WalkCap
    /\ stats.streak = WalkCap /\ walked = WalkCap

IsWin(r) == r.is_completed

\* C10: totalWins is the number of fetched records whose is_completed is true.
C10_TotalWinsCountsCompleted ==
    /\ stats.totalWins = Len(SelectSeq(history, IsWin))
    /\ \A t \in ClockDays :
           statsMemo(history, t).stats.totalWins = Len(SelectSeq(history, IsWin))

\* Two completed records of one date count as two wins.
C10_Witness ==
    /\ Len(history) = 2
    /\ history[1].date = history[2].date
    /\ history[1].is_completed /\ history[2].is_completed
    /\ stats.totalWins = 2

\* ----------------------------------------------------------- C11 .. C20
\* Number of fetched records and of completed ones among them.
DaysLogged == Len(history)
Wins == Len(SelectSeq(history, IsWin))

\* r is an integer nearest to 100 * Wins / DaysLogged.
NearestPercent(r) ==
    /\ 2 * DaysLogged * r - 200 * Wins <= DaysLogged
    /\ 200 * Wins - 2 * DaysLogged * r <= DaysLogged

\* C11: successRate is 100 * totalWins / (number of records) rounded to the
\* nearest integer, 70 for 7 completed of 10 records, and 0 without records.
C11_SuccessRateRounded ==
    /\ DaysLogged = 0 => stats.successRate = 0
    /\ DaysLogged > 0 => NearestPercent(stats.successRate)
    /\ (DaysLogged = 10 /\ Wins = 7) => (stats.totalWins = 7 /\ stats.successRate = 70)

\* Ten fetched records, seven of them completed.
C11_Witness ==
    /\ DaysLogged = 10 /\ Wins = 7
    /\ stats.totalWins = 7 /\ stats.successRate = 70

\* Weekdays by day number: 1970-01-05 (day 4) was a Monday.
IsMonday(d) == (d - 4) % 7 = 0
IsSunday(d) == (d - 3) % 7 = 0
IsWednesday(d) == (d - 6) % 7 = 0

\* a and b are dates of one calendar month.
SameMonth(a, b) == format(a)[1] = format(b)[1] /\ format(a)[2] = format(b)[2]

\* The dates of the anchor's month, its first and its last.
AnchorMonth == {d \in (currentMonth - 31)..(currentMonth + 31) : SameMonth(d, currentMonth)}
AnchorFirst == CHOOSE d \in AnchorMonth : \A e \in AnchorMonth : d <= e
AnchorLast == CHOOSE d \in AnchorMonth : \A e \in AnchorMonth : e <= d

\* C12: the grid of the anchor month is the ascending run of consecutive
\* dates from the Monday on or before the month's first day to the Sunday on
\* or after its last day; every date of the month occurs exactly once.
C12_GridCoversMonth ==
    LET n == Len(calendarDays)
    IN  /\ n > 0
        /\ \A i \in 1..(n - 1) : calendarDays[i + 1] = calendarDays[i] + 1
        /\ IsMonday(calendarDays[1])
        /\ calendarDays[1] <= AnchorFirst /\ AnchorFirst - calendarDays[1] < 7
        /\ IsSunday(calendarDays[n])
        /\ AnchorLast <= calendarDays[n] /\ calendarDays[n] - AnchorLast < 7
        /\ \A d \in AnchorMonth :
               Cardinality({i \in 1..n : calendarDays[i] = d}) = 1

\* After navigation from the 31st: a six-row grid with days of both
\* neighbouring months.
C12_Witness ==
    /\ monthsBetween(now, currentMonth) # 0
    /\ ~SameMonth(calendarDays[1], currentMonth)
    /\ ~SameMonth(calendarDays[Len(calendarDays)], currentMonth)
    /\ Len(calendarDays) > Cardinality(AnchorMonth) + 7
    /\ format(now)[3] > 28

\* C13: the length of the grid is a multiple of 7, it starts on a Monday
\* and ends on a Sunday; a month that starts on a Wednesday is preceded in
\* the grid by the Monday and Tuesday of the previous month.
C13_GridWholeWeeks ==
    LET n == Len(calendarDays)
    IN  /\ n % 7 = 0
        /\ IsMonday(calendarDays[1])
        /\ IsSunday(calendarDays[n])
        /\ IsWednesday(AnchorFirst) =>
               /\ calendarDays[1] = AnchorFirst - 2
               /\ calendarDays[2] = AnchorFirst - 1
               /\ calendarDays[3] = AnchorFirst
               /\ SameMonth(calendarDays[1], AnchorFirst - 1)
               /\ SameMonth(calendarDays[2], AnchorFirst - 1)
               /\ ~SameMonth(calendarDays[2], currentMonth)

\* The header shows a month whose first day is a Wednesday.
C13_Witness ==
    /\ monthsBetween(now, currentMonth) # 0
    /\ IsWednesday(AnchorFirst)
    /\ calendarDays[1] = AnchorFirst - 2
    /\ Len(calendarDays) % 7 = 0

\* C14 (determinism and purity of getDayStatus and the stats memo) compares
\* two evaluations of one expression; it has no formula here.

\* C15: toggleTask flips the task's local flag at once, and when its PUT
\* fails, by a thrown request or by an error status, the local flag is again
\* the one from before the toggle.
C15_ToggleRolledBack ==
    [][/\ \A taskId \in TapTasks :
              (ToggleTask(taskId) /\ tReqs' # tReqs) =>
                  log'.tasks[taskId] = ~log.tasks[taskId]
       /\ \A r \in BagToSet(tReqs) :
              (TaskWriteRejected(r) \/ TaskWriteThrows(r)) =>
                  log'.tasks[r.task] = r.prev]_vars

\* C16: pickImage puts the picked photo and photo_logged = true into the
\* local log at once, and when its POST fails both are again as before the pick.
C16_PhotoRolledBack ==
    [][/\ \A r \in BagToSet(tReqs) : \A img \in Images :
              (PickerDone(r, img) /\ r.snap # NullLog) =>
                  (log'.photo_base64 = img /\ log'.tasks["photo_logged"])
       /\ \A r \in BagToSet(tReqs) :
              (PhotoWriteRejected(r) \/ PhotoWriteThrows(r)) =>
                  /\ log'.photo_base64 = r.photo
                  /\ log'.tasks["photo_logged"] = r.prev]_vars

\* A fetchChallenges() started by a catch block for challenge id is in flight in q.
Reverting(q, id) == \E g \in BagToSet(q) : g.kind = "GET" /\ g.id = id

\* C17: toggleChallenge and the confirmed deleteChallenge change the list at
\* once; when their PUT or DELETE fails a revert follows, and once it has
\* settled the list shows the challenge as before the action.
C17_ChallengeReverted ==
    [][/\ \A id \in DOMAIN challenges :
              ToggleChallenge(id) => challenges'[id] = ~challenges[id]
       /\ ConfirmDelete => confirmDelete.id \notin DOMAIN challenges'
       /\ \A r \in BagToSet(sReqs) :
              (\/ ChallengeWriteRejected(r) \/ ChallengeWriteThrows(r)
               \/ DeleteRejected(r) \/ DeleteThrows(r)) =>
                  Reverting(sReqs', r.id)
       /\ \A g \in BagToSet(sReqs) :
              (g.id # "none" /\ (FetchChallengesOk(g) \/ FetchChallengesFail(g))) =>
                  (g.id \in DOMAIN challenges' /\ challenges'[g.id] = g.val)]_vars

\* C18: whenever no request of the Today screen is in flight, the task
\* flags of the local log are those of the store.
C18_SettledMeansReconciled ==
    (tab = "today" /\ ~tLoading /\ log # NullLog /\ BagCardinality(tReqs) = 0) =>
        \A taskId \in TaskIds : log.tasks[taskId] = remote.tasks[taskId]

\* The fetches of a screen's own data in flight.
Gets(q) == BagCardinality([r \in {g \in BagToSet(q) : g.kind = "GET"} |-> q[r]])
TodayGets == Gets(tReqs)
SettingsGets == Gets(sReqs)

\* C19 as stated: at most one GET /history, one GET /today, one GET
\* /challenges is in flight at any time.
C19_OneFetchAtATime ==
    /\ pending <= 1
    /\ TodayGets <= 1
    /\ SettingsGets <= 1

\* C19, amended: while a mounted screen, in front or behind another, is in
\* its loading state exactly its initial fetch is in flight; afterwards fetches started
\* by user actions are not held back by one in flight, and a step starts at
\* most one.
C19_OneFetchWhileLoading ==
    /\ [](/\ ((tab = "history" \/ HistoryMounted) /\ loading) => pending = 1
          /\ ((tab = "today" \/ TodayMounted) /\ tLoading) => TodayGets = 1
          /\ ((tab = "settings" \/ SettingsMounted) /\ sLoading) => SettingsGets = 1)
    /\ [][/\ pending' <= pending + 1
          /\ TodayGets' <= TodayGets + 1
          /\ SettingsGets' <= SettingsGets + 1]_vars

\* Two fetches of one screen in flight, started by user actions after the
\* initial load.
C19_Witness ==
    \/ tab = "history" /\ ~loading /\ pending > 1
    \/ tab = "today" /\ ~tLoading /\ TodayGets > 1
    \/ tab = "settings" /\ ~sLoading /\ SettingsGets > 1

\* C20: on every screen loading is true from the mount until the initial
\* fetch settles, becomes false when it settles either way, and is not set
\* to true again; it changes only when a fetch settles.
C20_LoadingOnlyInitially ==
    /\ [](/\ ((tab = "history" \/ HistoryMounted) /\ loading) => pending = 1
          /\ ((tab = "today" \/ TodayMounted) /\ tLoading) => (TodayGets = 1 /\ log = NullLog)
          /\ ((tab = "settings" \/ SettingsMounted) /\ sLoading) => SettingsGets = 1
          /\ ((tab = "gallery" \/ GalleryMounted) /\ gLoading) => gPending = 1)
    /\ [][/\ (loading' => loading) /\ (tLoading' => tLoading)
          /\ (sLoading' => sLoading) /\ (gLoading' => gLoading)
          /\ (loading' # loading) <=> (loading /\ pending' < pending)
          /\ (tLoading' # tLoading) <=> (tLoading /\ TodayGets' < TodayGets)
          /\ (sLoading' # sLoading) <=> (sLoading /\ SettingsGets' < SettingsGets)
          /\ (gLoading' # gLoading) <=> (gLoading /\ gPending' < gPending)]_vars

\* The initial GET /today has failed and a later fetch is in flight:
\* loading is false.
C20_Witness ==
    /\ tab = "today" /\ ~tLoading /\ log = NullLog
    /\ TodayGets = 1 /\ refreshing

\* ----------------------------------------------------------- C21 .. C30
\* The step settles a request as failed: it threw or was answered with an
\* error status.
FailedRequest ==
    \/ FetchHistoryFail
    \/ FetchPhotosFail
    \/ \E r \in BagToSet(tReqs) :
           \/ FetchTodayFail(r)
           \/ TaskWriteRejected(r) \/ TaskWriteThrows(r)
           \/ PhotoWriteRejected(r) \/ PhotoWriteThrows(r)
           \/ CompleteThrows(r) \/ (CompleteAnswered(r) /\ ~storeAllDone(remote))
           \/ ResetAnswered(r, FALSE) \/ ResetThrows(r)
    \/ \E r \in BagToSet(sReqs) :
           \/ FetchChallengesFail(r)
           \/ ChallengeWriteRejected(r) \/ ChallengeWriteThrows(r)
           \/ DeleteRejected(r) \/ DeleteThrows(r)
           \/ CreateRejected(r) \/ CreateThrows(r)

\* C21: every failed request of the application, fetch or write, raises an
\* alert.
C21_FailureAlerts == [][FailedRequest => alert' # "none"]_vars

\* The fetched records have a completed record of the date day.
DoneOn(day) == format(day) \in DoneDates

\* C22: with the same records, when the date advances from D to D + 1 and
\* D + 1 is not completed, a streak s < 365 of a completed D is still s at
\* D + 1, and after a D that is not completed the streak at D + 1 is 0.
C22_RolloverKeepsStreak ==
    \A D \in ClockDays :
        ~DoneOn(D + 1) =>
            /\ (DoneOn(D) /\ StreakAt(D) < WalkCap) => StreakAt(D + 1) = StreakAt(D)
            /\ ~DoneOn(D) => StreakAt(D + 1) = 0

\* Midnight has passed on a screen whose records end with a run of
\* completed days up to yesterday.
C22_Witness ==
    /\ now = Day0 + 1
    /\ DoneOn(Day0) /\ DoneOn(Day0 - 1) /\ ~DoneOn(now)
    /\ StreakAt(Day0) = StreakAt(now) /\ StreakAt(now) > 1

\* C23: the rollback of a failed task write changes the local flag of that
\* task only; the flags of the other tasks, photo_logged and the photo stay
\* as they were just before the rollback.
C23_RollbackTouchesOneTask ==
    [][\A r \in BagToSet(tReqs) :
           TaskWriteThrows(r) =>
               /\ \A k \in TaskKeys \ {r.task} : log'.tasks[k] = log.tasks[k]
               /\ log'.photo_base64 = log.photo_base64]_vars


\* The write requests in flight on the Today screen.
Writes(q) == {r \in BagToSet(q) : r.kind \in {"PUT", "PHOTO", "COMPLETE", "RESET"}}

\* C24: with a null log (the initial GET /today failed) toggleTask, and
\* pickImage once an image is picked, raise no exception from reading a
\* field of the log, start no write request and leave the log as it is.
C24_NullLogIsSafe ==
    [][/\ \A taskId \in TapTasks :
              (log = NullLog /\ ToggleTask(taskId)) =>
                  (thrown' = "none" /\ Writes(tReqs') = Writes(tReqs) /\ log' = log)
       /\ \A r \in BagToSet(tReqs) : \A base64Img \in Images :
              (r.snap = NullLog /\ PickerDone(r, base64Img)) =>
                  (thrown' = "none" /\ Writes(tReqs') = Writes(tReqs) /\ log' = log)]_vars


\* C25: a toggleTask or pickImage invoked while isCompleted is true starts no
\* request and leaves the local log as it is.
C25_CompletedDayIsReadOnly ==
    [][isCompleted =>
           /\ \A taskId \in TapTasks : ToggleTask(taskId) => UNCHANGED <<log, tReqs>>
           /\ PickImage => UNCHANGED <<log, tReqs>>]_vars

\* The day was completed by the button (the log still holds is_completed
\* false) and a handler has run since the congratulation.
C25_Witness ==
    /\ tab = "today" /\ isCompleted /\ ~tLoading /\ ~showResetModal
    /\ log # NullLog /\ ~log.is_completed
    /\ tReqs = EmptyBag /\ alert = "none"


\* C26: isCompleted turns from false to true only when POST /complete_day
\* is answered ok or a fetched record has is_completed true; an answer that
\* is not ok and a thrown request leave it as it is; completeDay starts only
\* while the six tasks and photo_logged are true in the local log and
\* isCompleted is false.
C26_CompletionOnlyWhenConfirmed ==
    [][/\ (~isCompleted /\ isCompleted') =>
              \E r \in BagToSet(tReqs) :
                  \/ CompleteAnswered(r) /\ storeAllDone(remote)
                  \/ FetchTodayOk(r) /\ remote.is_completed
       /\ \A r \in BagToSet(tReqs) :
              (CompleteThrows(r) \/ (CompleteAnswered(r) /\ ~storeAllDone(remote))) =>
                  isCompleted' = isCompleted
       /\ CompleteDay =>
              /\ log # NullLog
              /\ \A k \in TaskKeys : log.tasks[k]
              /\ ~isCompleted]_vars

\* POST /complete_day was just answered ok.
C26_Witness ==
    /\ tab = "today" /\ isCompleted /\ alert = "CONGRATULATIONS!"
    /\ remote.is_completed /\ \A k \in TaskKeys : log.tasks[k]


\* stats st computed from the fetched records is within its bounds.
StatsInRange(st) ==
    /\ 0 <= st.streak /\ st.streak <= st.totalWins /\ st.totalWins <= Len(history)
    /\ 0 <= st.successRate /\ st.successRate <= 100

\* C27: 0 <= streak <= totalWins <= number of records, and
\* 0 <= successRate <= 100, for the stats shown and at every date.
C27_StatsWithinBounds ==
    /\ StatsInRange(stats)
    /\ \A t \in ClockDays : StatsInRange(statsMemo(history, t).stats)

\* A streak shorter than the wins, and records that are not wins.
C27_Witness ==
    /\ 0 < stats.streak /\ stats.streak < stats.totalWins
    /\ stats.totalWins < Len(history)
    /\ 0 < stats.successRate /\ stats.successRate < 100


\* At most one fetched record per date.
UniqueDates ==
    \A i \in DOMAIN history : \A j \in DOMAIN history :
        history[i].date = history[j].date => i = j

\* The class getDayStatus gives day in a render at date t.
StatusAt(day, t) == getDayStatus(day, historyMap, t)

\* The date the calendar's run of successes ends at, seen from date t.
SuccessEnd(t) == IF StatusAt(t, t) = "pending" THEN t - 1 ELSE t

\* C28: with at most one record per date and the same today t, the streak s
\* counts dates SuccessEnd(t), SuccessEnd(t) - 1, ... that getDayStatus all
\* classifies 'success', and the next date, where the walk stops, is
\* classified 'failed' unless it lies before the 365 dates of the walk.
C28_StreakAgreesWithCalendar ==
    \A t \in ClockDays :
        UniqueDates =>
            LET s == StreakAt(t)
                e == SuccessEnd(t)
            IN  /\ \A j \in 0..(s - 1) : StatusAt(e - j, t) = "success"
                /\ (e - s > t - WalkCap) => StatusAt(e - s, t) = "failed"

\* Today pending, a success before it, and the walk stops at a date whose
\* record is not completed.
C28_Witness ==
    /\ UniqueDates /\ now = Day0 /\ today = now
    /\ StatusAt(now, now) = "pending"
    /\ stats.streak = 1 /\ walked = 3
    /\ format(now - 2) \in DOMAIN historyMap
    /\ StatusAt(now - 2, now) = "failed"


\* The fetched records with record i completed, and with a completed record
\* of date t added.
CompletedAt(i) == [history EXCEPT ![i].is_completed = TRUE]
WithCompleted(t) == Append(history, Record(t, TRUE))

\* The stats of the records h at date t are the stats of the fetched records
\* with streak and totalWins one higher.
OneMoreWin(h, t) ==
    /\ statsMemo(h, t).stats.streak = StreakAt(t) + 1
    /\ statsMemo(h, t).stats.totalWins = statsMemo(history, t).stats.totalWins + 1

\* C29: for a non-empty record set without a completed record of today,
\* completing one record of today, or adding a completed record of today,
\* raises the streak by exactly 1 and totalWins by exactly 1.
C29_CompletingTodayAddsOne ==
    \A t \in ClockDays :
        (Len(history) > 0 /\ ~DoneOn(t)) =>
            /\ \A i \in LogsOf(t) : OneMoreWin(CompletedAt(i), t)
            /\ OneMoreWin(WithCompleted(t), t)

\* Today has an open record after two completed days; completing it gives 3.
C29_Witness ==
    /\ now = Day0 /\ ~DoneOn(now) /\ LogsOf(now) # {}
    /\ stats.streak = 2
    /\ \A i \in LogsOf(now) : statsMemo(CompletedAt(i), now).stats.streak = 3


\* C30: the streak shown by a render is the streak of the fetched records
\* at the date today of that render, the date its getDayStatus uses.
C30_StreakOfRenderDate == stats.streak = StreakAt(today)

====
